---- MODULE Spec2Model ----
(***************************************************************************)
(* glacier: recolour an image with the colours of the selected Nord        *)
(* schemes.  One process: main parses the command line (from_str per       *)
(* scheme argument), run opens the image, concatenates the schemes'        *)
(* colours, maps every pixel to a candidate by a running-minimum scan and  *)
(* saves the result with the input's dimensions.                           *)
(***************************************************************************)
EXTENDS Integers, Sequences, FiniteSets, TLC

\* ---------------------------------------------------------------- bounds

\* Most scheme arguments on one command line.
MaxSchemes == 2

\* Most pixels (width * height) of an input image.
MaxPixels == 2

\* ------------------------------------------------------------- constants

\* let mut min = 255;
InitMin == 255

\* diff is a u16.
U16Mod == 65536

Color(r, g, b) == [r |-> r, g |-> g, b |-> b]

NORD_FROST ==
    << Color(143, 188, 187), Color(136, 192, 208),
       Color(129, 161, 193), Color(94, 129, 172) >>

NORD_POLAR_NIGHT ==
    << Color(46, 52, 64), Color(59, 66, 82),
       Color(67, 76, 94), Color(76, 86, 106) >>

NORD_SNOW_STORM ==
    << Color(216, 222, 233), Color(229, 233, 240), Color(236, 239, 244) >>

NORD_AURORA ==
    << Color(191, 97, 106), Color(208, 135, 112), Color(235, 203, 139),
       Color(163, 190, 140), Color(180, 142, 173) >>

\* ------------------------------------------------------------ the inputs

\* Scheme arguments tried: the four identifiers, a wrong name and a wrong case.
Idents == {"frost", "polar_night", "snow_storm", "aurora", "glacier", "Frost"}

\* Pixel values tried: a Frost colour (at distance >= 255 of every Polar Night
\* colour), a point at equal distance 16 from the first two Frost colours, and
\* a colour at distance >= 255 of every Frost, Polar Night and Snow Storm
\* colour.
PixelValues ==
    { Color(136, 192, 208), Color(143, 188, 203), Color(255, 255, 0) }

ArgLists == UNION { [1..n -> Idents] : n \in 0..MaxSchemes }

\* A decoded image: at least 1x1, row-major RGB data.
Dims == { wh \in (1..MaxPixels) \X (1..MaxPixels) : wh[1] * wh[2] <= MaxPixels }

Images ==
    UNION { { [width |-> wh[1], height |-> wh[2], data |-> d] :
                d \in [1..(wh[1] * wh[2]) -> PixelValues] } : wh \in Dims }

VARIABLES
    args,          \* the scheme arguments of the command line
    file,          \* the image at the input path
    pc,            \* where the process is
    schemes,       \* opts.schemes
    image,         \* run: the opened image, <<>> before
    valid_colors,  \* run: the candidate colours
    pixels,        \* run: the input pixels
    colorized,     \* run: the output buffer
    min,           \* recolor loop: running minimum of the last pixel scanned
    color_idx,     \* recolor loop: best index (0-based) of the last pixel scanned
    out,           \* the file at the output path: <<>> or <<[width, height, bytes]>>
    err,           \* the error the process ended with, <<>> if none
    prev           \* one (pixel, colour) pair a previous run of the same command produced

vars == << args, file, pc, schemes, image, valid_colors, pixels, colorized,
           min, color_idx, out, err, prev >>

\* -------------------------------------------------------------- from_str

\* Result<Scheme>: Ok carries the scheme, Err the anyhow message (the format
\* string, then its arguments).
from_str(s) ==
    CASE s = "frost"       -> [ok |-> TRUE, val |-> [variant |-> "Frost", colors |-> NORD_FROST]]
      [] s = "polar_night" -> [ok |-> TRUE, val |-> [variant |-> "PolarNight", colors |-> NORD_POLAR_NIGHT]]
      [] s = "snow_storm"  -> [ok |-> TRUE, val |-> [variant |-> "SnowStorm", colors |-> NORD_SNOW_STORM]]
      [] s = "aurora"      -> [ok |-> TRUE, val |-> [variant |-> "Aurora", colors |-> NORD_AURORA]]
      [] OTHER             -> [ok |-> FALSE, err |-> << "unknown scheme" >>]

\* First argument from_str rejects (structopt reports the first failure).
RECURSIVE FirstBad(_, _)
FirstBad(a, k) == IF from_str(a[k]).ok THEN FirstBad(a, k + 1) ELSE k

\* ------------------------------------------------------------------- run

\* Mutant of Candidates: a colour already among the candidates is not pushed again.
RECURSIVE CandidatesDedup(_)
CandidatesDedup(ss) ==
    IF ss = << >> THEN << >>
    ELSE LET front == CandidatesDedup(SubSeq(ss, 1, Len(ss) - 1))
             pal == ss[Len(ss)].colors
         IN front \o SelectSeq(pal, LAMBDA c : \A k \in DOMAIN front : front[k] # c)

\* for scheme in schemes { for color in c { valid_colors.push(color) } }
RECURSIVE Candidates(_)
Candidates(ss) ==
    IF ss = << >> THEN << >> ELSE Head(ss).colors \o Candidates(Tail(ss))

\* u8::abs_diff
abs_diff(a, b) == IF a > b THEN a - b ELSE b - a

\* let diff: u16 = r_diff as u16 + g_diff as u16 + b_diff as u16;
Diff(color, pixel) ==
    ( abs_diff(color.r, pixel.r) + abs_diff(color.g, pixel.g)
      + abs_diff(color.b, pixel.b) ) % U16Mod

\* Mutant of PixelStart: min is declared before the pixel loop, so it keeps
\* the previous pixel's value.
PixelStartHoisted == [min |-> min, color_idx |-> 0]

\* let mut min = 255; let mut color_idx = 0;
PixelStart == [min |-> InitMin, color_idx |-> 0]

\* Mutant of ScanStep: the best index is not recorded.
ScanStepKeepIdx(acc, idx, color, pixel) ==
    IF Diff(color, pixel) < acc.min
    THEN [min |-> Diff(color, pixel), color_idx |-> acc.color_idx]
    ELSE acc

\* Mutant of ScanStep: the running best is replaced on an equal distance too.
ScanStepLe(acc, idx, color, pixel) ==
    IF Diff(color, pixel) <= acc.min
    THEN [min |-> Diff(color, pixel), color_idx |-> idx]
    ELSE acc

\* if diff < min { min = diff; color_idx = idx; }
ScanStep(acc, idx, color, pixel) ==
    IF Diff(color, pixel) < acc.min
    THEN [min |-> Diff(color, pixel), color_idx |-> idx]
    ELSE acc

\* for (idx, color) in valid_colors.iter().enumerate(), from index idx on
\* (0-based, as enumerate counts).
RECURSIVE Scan(_, _, _, _)
Scan(cands, pixel, idx, acc) ==
    IF idx >= Len(cands) THEN acc
    ELSE Scan(cands, pixel, idx + 1, ScanStep(acc, idx, cands[idx + 1], pixel))

\* colorized.iter().flat_map(|color| vec![color.r, color.g, color.b])
RECURSIVE Flatten(_)
Flatten(cs) ==
    IF cs = << >> THEN << >>
    ELSE << Head(cs).r, Head(cs).g, Head(cs).b >> \o Flatten(Tail(cs))

\* --------------------------------------------------------------- actions

Launch(a, f, p) ==
    /\ args = a
    /\ file = f
    /\ pc = "from_args"
    /\ schemes = << >>
    /\ image = << >>
    /\ valid_colors = << >>
    /\ pixels = << >>
    /\ colorized = << >>
    /\ min = InitMin
    /\ color_idx = 0
    /\ out = << >>
    /\ err = << >>
    /\ prev = p

Init == \E a \in ArgLists, f \in Images : Launch(a, f, << >>)

\* Opt::from_args: every scheme argument goes through from_str; the first
\* failure ends the process before run is called.
from_args ==
    /\ pc = "from_args"
    /\ IF \A k \in DOMAIN args : from_str(args[k]).ok
       THEN /\ schemes' = [k \in DOMAIN args |-> from_str(args[k]).val]
            /\ pc' = "run"
            /\ err' = err
       ELSE /\ schemes' = schemes
            /\ pc' = "exit_usage"
            /\ err' = from_str(args[FirstBad(args, 1)]).err
    /\ UNCHANGED << args, file, image, valid_colors, pixels, colorized,
                    min, color_idx, out, prev >>

\* run, up to the recolor loop: image::open (which may fail), the candidate
\* colours, the pixels.
run_open ==
    /\ pc = "run"
    /\ \/ /\ pc' = "exit_err"
          /\ err' = << "image::open" >>
          /\ UNCHANGED << image, valid_colors, pixels >>
       \/ /\ image' = << file >>
          /\ valid_colors' = Candidates(schemes)
          /\ pixels' = file.data
          /\ pc' = IF file.data = << >> THEN "save" ELSE "recolor"
          /\ err' = err
    /\ UNCHANGED << args, file, schemes, colorized, min, color_idx, out, prev >>

\* Mutant of recolor_pixel: a pixel no candidate is within InitMin of is
\* pushed unchanged.
recolor_pixel_passthrough ==
    /\ pc = "recolor"
    /\ Len(colorized) < Len(pixels)
    /\ LET pixel == pixels[Len(colorized) + 1]
           acc == Scan(valid_colors, pixel, 0, PixelStart)
       IN /\ min' = acc.min
          /\ color_idx' = acc.color_idx
          /\ IF acc.color_idx < Len(valid_colors)
             THEN /\ colorized' = Append(colorized,
                                     IF acc.min = InitMin THEN pixel
                                     ELSE valid_colors[acc.color_idx + 1])
                  /\ pc' = IF Len(colorized) + 1 = Len(pixels) THEN "save" ELSE "recolor"
                  /\ err' = err
             ELSE /\ colorized' = colorized
                  /\ pc' = "panicked"
                  /\ err' = << "index out of bounds" >>
    /\ UNCHANGED << args, file, schemes, image, valid_colors, pixels, out, prev >>

\* One iteration of for pixel in pixels: the scan of the candidates, then
\* colorized.push(valid_colors[color_idx]), whose index panics when it is out
\* of bounds.
recolor_pixel ==
    /\ pc = "recolor"
    /\ Len(colorized) < Len(pixels)
    /\ LET pixel == pixels[Len(colorized) + 1]
           acc == Scan(valid_colors, pixel, 0, PixelStart)
       IN /\ min' = acc.min
          /\ color_idx' = acc.color_idx
          /\ IF acc.color_idx < Len(valid_colors)
             THEN /\ colorized' = Append(colorized, valid_colors[acc.color_idx + 1])
                  /\ pc' = IF Len(colorized) + 1 = Len(pixels) THEN "save" ELSE "recolor"
                  /\ err' = err
             ELSE /\ colorized' = colorized
                  /\ pc' = "panicked"
                  /\ err' = << "index out of bounds" >>
    /\ UNCHANGED << args, file, schemes, image, valid_colors, pixels, out, prev >>

\* Mutant of save: width and height are passed in the wrong order.
save_swapped ==
    /\ pc = "save"
    /\ \/ /\ pc' = "exit_err"
          /\ err' = << "image::save_buffer_with_format" >>
          /\ out' = out
       \/ /\ out' = << [width |-> image[1].height, height |-> image[1].width,
                        bytes |-> Flatten(colorized)] >>
          /\ pc' = "exit_ok"
          /\ err' = err
    /\ UNCHANGED << args, file, schemes, image, valid_colors, pixels, colorized,
                    min, color_idx, prev >>

\* image::save_buffer_with_format(out_file, bytes, image.width(),
\* image.height(), Rgb8, Png), which may fail; then Ok(()).
save ==
    /\ pc = "save"
    /\ \/ /\ pc' = "exit_err"
          /\ err' = << "image::save_buffer_with_format" >>
          /\ out' = out
       \/ /\ out' = << [width |-> image[1].width, height |-> image[1].height,
                        bytes |-> Flatten(colorized)] >>
          /\ pc' = "exit_ok"
          /\ err' = err
    /\ UNCHANGED << args, file, schemes, image, valid_colors, pixels, colorized,
                    min, color_idx, prev >>

\* The same command line is run once more, on any image; one pixel of the
\* finished run and the colour written for it are remembered for comparison.
rerun ==
    /\ pc = "exit_ok"
    /\ prev = << >>
    /\ \E i \in DOMAIN colorized, f \in Images :
         /\ args' = args
         /\ file' = f
         /\ pc' = "from_args"
         /\ schemes' = << >>
         /\ image' = << >>
         /\ valid_colors' = << >>
         /\ pixels' = << >>
         /\ colorized' = << >>
         /\ min' = InitMin
         /\ color_idx' = 0
         /\ out' = << >>
         /\ err' = << >>
         /\ prev' = << [cands |-> valid_colors, pixel |-> pixels[i], color |-> colorized[i]] >>

Next == from_args \/ run_open \/ recolor_pixel \/ save \/ rerun

Spec == Init /\ [][Next]_vars

\* ------------------------------------------------- what the claims speak of

\* L1 distance over the integers: |c.r - p.r| + |c.g - p.g| + |c.b - p.b|.
Abs(x) == IF x < 0 THEN -x ELSE x
L1(c, p) == Abs(c.r - p.r) + Abs(c.g - p.g) + Abs(c.b - p.b)

\* Lowest 1-based index of a candidate of minimum L1 distance to p.
LowestMinIdx(cands, p) ==
    CHOOSE k \in DOMAIN cands :
        /\ \A j \in DOMAIN cands : L1(cands[k], p) <= L1(cands[j], p)
        /\ \A j \in 1..(k - 1) : L1(cands[j], p) > L1(cands[k], p)

\* Some candidate lies at distance < 255 of p.
InRange(cands, p) == \E k \in DOMAIN cands : L1(cands[k], p) < 255

\* 1-based index a scan starting at (255, index 0) ends on.
ExpectedIdx(cands, p) == IF InRange(cands, p) THEN LowestMinIdx(cands, p) ELSE 1

Known == {"frost", "polar_night", "snow_storm", "aurora"}

PaletteOf(name) ==
    CASE name = "frost" -> NORD_FROST
      [] name = "polar_night" -> NORD_POLAR_NIGHT
      [] name = "snow_storm" -> NORD_SNOW_STORM
      [] name = "aurora" -> NORD_AURORA

\* Number of colours of the palettes named by a[1..k-1].
RECURSIVE Offset(_, _)
Offset(a, k) == IF k <= 1 THEN 0 ELSE Offset(a, k - 1) + Len(PaletteOf(a[k - 1]))

Carries(e, s) == \E k \in DOMAIN e : e[k] = s

Triple(bytes, i) == Color(bytes[3 * i - 2], bytes[3 * i - 1], bytes[3 * i])

Ended == pc \in {"exit_ok", "exit_err", "panicked"}

AllExact == \A i \in DOMAIN pixels : \E k \in DOMAIN valid_colors : valid_colors[k] = pixels[i]

\* ---------------------------------------------------------------- claims

\* C1: every colour emitted for a pixel has the minimum L1 distance to that
\* pixel over all candidates; no candidate is strictly closer.
C1_Nearest ==
    \A i \in DOMAIN colorized : \A k \in DOMAIN valid_colors :
        L1(colorized[i], pixels[i]) <= L1(valid_colors[k], pixels[i])

\* C2: when several candidates share the minimum distance to a pixel, the
\* loop selects the one of lowest index in the candidate sequence.
C2_LowestIndexOfMinimum ==
    /\ \A i \in DOMAIN colorized :
          colorized[i] = valid_colors[LowestMinIdx(valid_colors, pixels[i])]
    /\ colorized # << >> =>
          color_idx + 1 = LowestMinIdx(valid_colors, pixels[Len(colorized)])

\* C3: if every input pixel equals some candidate colour, the output pixel
\* sequence equals the input pixel sequence, position by position, also with
\* duplicate candidates.
C3_ExactMatchIdentity ==
    AllExact =>
        /\ \A i \in DOMAIN colorized : colorized[i] = pixels[i]
        /\ pc \in {"save", "exit_ok"} => colorized = pixels
        /\ out # << >> => out[1].bytes = Flatten(pixels)

C3_Witness ==
    /\ pc = "exit_ok"
    /\ AllExact
    /\ Len(pixels) >= 2
    /\ \E j, k \in DOMAIN valid_colors :
          j < k /\ valid_colors[j] = valid_colors[k] /\ valid_colors[j] = pixels[1]

\* C4: a run that reaches the recolor loop with no candidate and at least one
\* pixel ends with an explicit EmptyCandidateSet error and writes no output.
C4_EmptyCandidateSetFailure ==
    (Ended /\ image # << >> /\ valid_colors = << >> /\ Len(pixels) >= 1) =>
        /\ pc = "exit_err"
        /\ Carries(err, "EmptyCandidateSet")
        /\ out = << >>

\* C5: from_str succeeds exactly for the four identifiers; for any other
\* string it fails with an error carrying the offending string and returns no
\* palette.
C5_FromStrContract ==
    /\ \A s \in Idents : from_str(s).ok <=> s \in Known
    /\ \A s \in Idents \ Known : "val" \notin DOMAIN from_str(s)
    /\ pc = "exit_usage" =>
          \E k \in DOMAIN args : args[k] \notin Known /\ Carries(err, args[k])

\* C6: the candidate sequence is the concatenation of the schemes' colours in
\* declaration order, schemes in the order supplied, nothing removed or
\* reordered; its length is the sum of the palette lengths.
C6_Concatenation ==
    image # << >> =>
        /\ Len(valid_colors) = Offset(args, Len(args) + 1)
        /\ \A k \in DOMAIN args : \A j \in DOMAIN PaletteOf(args[k]) :
              valid_colors[Offset(args, k) + j] = PaletteOf(args[k])[j]
        /\ args = << "frost", "aurora" >> =>
              /\ Len(valid_colors) = 9
              /\ SubSeq(valid_colors, 1, 4) = NORD_FROST
              /\ SubSeq(valid_colors, 5, 9) = NORD_AURORA
        /\ args = << "frost", "frost" >> => Len(valid_colors) = 8

C6_Witness ==
    /\ image # << >>
    /\ Len(args) = 2
    /\ args[1] = args[2]
    /\ Len(valid_colors) = 2 * Len(PaletteOf(args[1]))

\* C7: at every step of the recolor loop and after it, each colour in the
\* output buffer (and each triple of the saved bytes) equals some element of
\* the candidate sequence.
C7_Membership ==
    /\ \A i \in DOMAIN colorized :
          \E k \in DOMAIN valid_colors : valid_colors[k] = colorized[i]
    /\ out # << >> =>
          \A i \in 1..(Len(out[1].bytes) \div 3) :
              \E k \in DOMAIN valid_colors : valid_colors[k] = Triple(out[1].bytes, i)

C7_Witness ==
    /\ pc = "recolor"
    /\ Len(colorized) >= 1
    /\ min = InitMin
    /\ \A k \in DOMAIN valid_colors : valid_colors[k] # pixels[Len(colorized)]

\* C8: the output buffer holds exactly W*H pixels, one per input pixel in the
\* same row-major order, and is saved with the input's width and height.
C8_Dimensions ==
    /\ pc \in {"save", "exit_ok"} => Len(colorized) = file.width * file.height
    /\ out # << >> =>
          /\ out[1].width = file.width
          /\ out[1].height = file.height
          /\ Len(out[1].bytes) = 3 * file.width * file.height
          /\ \A i \in 1..(file.width * file.height) :
                Triple(out[1].bytes, i)
                    = valid_colors[ExpectedIdx(valid_colors, file.data[i])]

C8_Witness ==
    /\ out # << >>
    /\ file.width # file.height
    /\ Len(out[1].bytes) >= 6
    /\ Triple(out[1].bytes, 1) # Triple(out[1].bytes, 2)

\* C9: the colour emitted at a position depends only on the input pixel there
\* and on the candidate sequence: equal pixels get equal colours, within a
\* run and across two runs with the same candidates, whatever the other
\* pixels, the grid size and the position.
C9_PixelIndependence ==
    /\ \A i, j \in DOMAIN colorized :
          pixels[i] = pixels[j] => colorized[i] = colorized[j]
    /\ (prev # << >> /\ prev[1].cands = valid_colors) =>
          \A j \in DOMAIN colorized :
              pixels[j] = prev[1].pixel => colorized[j] = prev[1].color

C9_Witness ==
    /\ prev # << >>
    /\ prev[1].cands = valid_colors
    /\ Len(colorized) = 2
    /\ pixels[1] # pixels[2]
    /\ colorized[1] # colorized[2]
    /\ pixels[2] = prev[1].pixel
    /\ colorized[2] = prev[1].color

\* C10: the running minimum starts at 255 with best index 0 and is replaced
\* only by a strictly smaller distance: with a candidate at distance < 255 the
\* emitted colour is the lowest-index candidate of minimum distance, otherwise
\* it is the candidate at index 0; the u16 distance equals the L1 distance,
\* within 0..765.
C10_RunningMinimum ==
    /\ \A i \in DOMAIN colorized :
          colorized[i] = valid_colors[ExpectedIdx(valid_colors, pixels[i])]
    /\ colorized # << >> =>
          LET p == pixels[Len(colorized)] IN
          /\ color_idx + 1 = ExpectedIdx(valid_colors, p)
          /\ min = IF InRange(valid_colors, p)
                   THEN L1(valid_colors[LowestMinIdx(valid_colors, p)], p)
                   ELSE 255
    /\ \A i \in DOMAIN pixels : \A k \in DOMAIN valid_colors :
          /\ Diff(valid_colors[k], pixels[i]) = L1(valid_colors[k], pixels[i])
          /\ Diff(valid_colors[k], pixels[i]) \in 0..765

C10_Witness ==
    /\ Len(colorized) = 2
    /\ \E i, j \in DOMAIN colorized :
          /\ ~InRange(valid_colors, pixels[i])
          /\ LowestMinIdx(valid_colors, pixels[i]) # 1
          /\ colorized[i] = valid_colors[1]
          /\ InRange(valid_colors, pixels[j])
          /\ \E k \in DOMAIN valid_colors :
                /\ k > LowestMinIdx(valid_colors, pixels[j])
                /\ valid_colors[k] # colorized[j]
                /\ L1(valid_colors[k], pixels[j]) = L1(colorized[j], pixels[j])

====
